---- MODULE Spec2Model ----
(***************************************************************************)
(* gists-gone: fetch the user's gists page by page, normalise them into    *)
(* Gist records, filter them by visibility / language / creation date and  *)
(* delete the matching ones (src/gists_gone/gists_gone.py).                *)
(*                                                                         *)
(* Conventions of the model                                                *)
(*   - a Python string that the code parses (a date argument, a creation   *)
(*     timestamp) is a sequence of one-character strings;                  *)
(*   - a calendar date is the integer year*10000 + month*100 + day, whose  *)
(*     order is the order of datetime.date;                                *)
(*   - an optional value is a record [some, val]; None has some = FALSE;   *)
(*   - a call that raises is a result whose err field names the exception. *)
(***************************************************************************)
EXTENDS Integers, Sequences, FiniteSets, TLC

VARIABLES
    call,           \* the pure function under call: [fn, ...arguments]
    ret,            \* its result, or Pending before the call has run
    pc,             \* where the run of cli stands
    err,            \* the exception that ended the run, "none" otherwise
    argv,           \* the command line as get_parser_args returned it
    environ,        \* the GITHUB_API_TOKEN variable, None when unset
    token,          \* args.token
    relevant_args,  \* [visibility, languages, date_range]
    page,           \* the loop variable of the fetch loop
    gists,          \* the Gists fetched so far
    gist_ids,       \* the ids handed to delete_gists
    fetchLog,       \* the requests.get and sleep calls of the fetch loop
    filterCalled,   \* whether filter_gists was called
    prompted,       \* whether delete_gists asked for confirmation
    answer,         \* what the user typed at the prompt
    deleteLog,      \* the requests.delete calls: [id, ok]
    deleteSleeps,   \* the sleep calls of delete_gists
    outcome,        \* how delete_gists ended
    fullLen         \* the number of records on a page that is not short

pvars == <<call, ret>>
cvars == <<pc, err, argv, environ, token, relevant_args, page, gists, gist_ids,
           fetchLog, filterCalled, prompted, answer, deleteLog, deleteSleeps, outcome,
           fullLen>>
vars == <<pvars, cvars>>

(***************************************************************************)
(* Bounds of the model                                                     *)
(***************************************************************************)
MaxDateArgs == 4    \* longest -dr argument list tried
MaxGists == 2       \* longest record list handed to the pure functions
MaxShort == 0       \* a short page has 0..MaxShort records, or ShortPage - 1
MaxOver == 1        \* a full page has ShortPage or ShortPage + MaxOver records

(***************************************************************************)
(* Constants of the program                                                *)
(***************************************************************************)
LastPage == 30      \* range(1, 31)
PerPage == 100      \* params per_page
ShortPage == 30     \* len(page_gists) < 30

(***************************************************************************)
(* Optional values                                                         *)
(***************************************************************************)
NoneStr == [some |-> FALSE, val |-> ""]
NoneList == [some |-> FALSE, val |-> <<>>]
Some(v) == [some |-> TRUE, val |-> v]
IsNone(x) == ~x.some

ToSet(s) == {s[i] : i \in 1..Len(s)}

(***************************************************************************)
(* datetime.strptime                                                       *)
(***************************************************************************)
Digits == {"0", "1", "2", "3", "4", "5", "6", "7", "8", "9"}

DigitVal(c) ==
    CASE c = "0" -> 0 [] c = "1" -> 1 [] c = "2" -> 2 [] c = "3" -> 3
      [] c = "4" -> 4 [] c = "5" -> 5 [] c = "6" -> 6 [] c = "7" -> 7
      [] c = "8" -> 8 [] c = "9" -> 9

\* s[i] when i is a position of s, and "" past its end
At(s, i) == IF i >= 1 /\ i <= Len(s) THEN s[i] ELSE ""

IsDigitAt(s, i) == At(s, i) \in Digits

\* The value of a field of n digits starting at position i
FieldVal(s, i, n) ==
    IF n = 4 THEN DigitVal(s[i]) * 1000 + DigitVal(s[i + 1]) * 100
                  + DigitVal(s[i + 2]) * 10 + DigitVal(s[i + 3])
    ELSE IF n = 2 THEN DigitVal(s[i]) * 10 + DigitVal(s[i + 1])
    ELSE DigitVal(s[i])

\* Number of characters a directive's regular expression consumes at position
\* i, 0 when it does not match.  The alternatives are tried in the order of
\* _strptime's regular expressions.
\* %Y: \d\d\d\d
MatchY(s, i) ==
    IF \A k \in 0..3 : IsDigitAt(s, i + k) THEN 4 ELSE 0

\* %m: 1[0-2]|0[1-9]|[1-9]
MatchMonth(s, i) ==
    IF At(s, i) = "1" /\ At(s, i + 1) \in {"0", "1", "2"} THEN 2
    ELSE IF At(s, i) = "0" /\ At(s, i + 1) \in Digits \ {"0"} THEN 2
    ELSE IF At(s, i) \in Digits \ {"0"} THEN 1
    ELSE 0

\* %d: 3[0-1]|[1-2]\d|0[1-9]|[1-9]
MatchDay(s, i) ==
    IF At(s, i) = "3" /\ At(s, i + 1) \in {"0", "1"} THEN 2
    ELSE IF At(s, i) \in {"1", "2"} /\ IsDigitAt(s, i + 1) THEN 2
    ELSE IF At(s, i) = "0" /\ At(s, i + 1) \in Digits \ {"0"} THEN 2
    ELSE IF At(s, i) \in Digits \ {"0"} THEN 1
    ELSE 0

\* %H: 2[0-3]|[0-1]\d|\d
MatchHour(s, i) ==
    IF At(s, i) = "2" /\ At(s, i + 1) \in {"0", "1", "2", "3"} THEN 2
    ELSE IF At(s, i) \in {"0", "1"} /\ IsDigitAt(s, i + 1) THEN 2
    ELSE IF IsDigitAt(s, i) THEN 1
    ELSE 0

\* %M: [0-5]\d|\d
MatchMinute(s, i) ==
    IF At(s, i) \in {"0", "1", "2", "3", "4", "5"} /\ IsDigitAt(s, i + 1) THEN 2
    ELSE IF IsDigitAt(s, i) THEN 1
    ELSE 0

\* %S: 6[0-1]|[0-5]\d|\d
MatchSecond(s, i) ==
    IF At(s, i) = "6" /\ At(s, i + 1) \in {"0", "1"} THEN 2
    ELSE MatchMinute(s, i)

IsLeap(y) == (y % 4 = 0 /\ y % 100 # 0) \/ y % 400 = 0

DaysInMonth(y, m) ==
    IF m = 2 THEN (IF IsLeap(y) THEN 29 ELSE 28)
    ELSE IF m \in {4, 6, 9, 11} THEN 30
    ELSE 31

\* datetime.date(y, m, d): the date, or NoDate when the constructor raises
NoDate == 0

MakeDate(y, m, d) ==
    IF y >= 1 /\ m >= 1 /\ m <= 12 /\ d >= 1 /\ d <= DaysInMonth(y, m)
    THEN y * 10000 + m * 100 + d
    ELSE NoDate

\* datetime.strptime(s, "%Y-%m-%d").date(); NoDate stands for ValueError
StrpDate(s) ==
    LET ly == MatchY(s, 1)
        pm == 6
        lm == MatchMonth(s, pm)
        pd == pm + lm + 1
        ld == MatchDay(s, pd)
    IN  IF /\ ly = 4 /\ At(s, 5) = "-"
           /\ lm > 0 /\ At(s, pm + lm) = "-"
           /\ ld > 0 /\ pd + ld = Len(s) + 1
        THEN MakeDate(FieldVal(s, 1, 4), FieldVal(s, pm, lm), FieldVal(s, pd, ld))
        ELSE NoDate

\* datetime.strptime(s, "%Y-%m-%dT%H:%M:%SZ").date(); NoDate stands for
\* ValueError.  The time of day is matched and then dropped by .date().
StrpTimestampDate(s) ==
    LET ly == MatchY(s, 1)
        pm == 6
        lm == MatchMonth(s, pm)
        pd == pm + lm + 1
        ld == MatchDay(s, pd)
        pH == pd + ld + 1
        lH == MatchHour(s, pH)
        pM == pH + lH + 1
        lM == MatchMinute(s, pM)
        pS == pM + lM + 1
        lS == MatchSecond(s, pS)
    IN  IF /\ ly = 4 /\ At(s, 5) = "-"
           /\ lm > 0 /\ At(s, pm + lm) = "-"
           /\ ld > 0 /\ At(s, pd + ld) = "T"
           /\ lH > 0 /\ At(s, pH + lH) = ":"
           /\ lM > 0 /\ At(s, pM + lM) = ":"
           /\ lS > 0 /\ At(s, pS + lS) = "Z"
           /\ pS + lS = Len(s)
        THEN MakeDate(FieldVal(s, 1, 4), FieldVal(s, pm, lm), FieldVal(s, pd, ld))
        ELSE NoDate

(***************************************************************************)
(* parse_date_arguments                                                    *)
(***************************************************************************)
\* The guard of the too-many-arguments error
TooManyDates(date_arguments) == Len(date_arguments) = 3

\* [err, dates]: the list of dates, or the exception raised
parse_date_arguments(date_arguments) ==
    IF TooManyDates(date_arguments)
    THEN [err |-> "TypeError", dates |-> <<>>]
    ELSE IF \E i \in 1..Len(date_arguments) : StrpDate(date_arguments[i]) = NoDate
    THEN [err |-> "ValueError", dates |-> <<>>]
    ELSE [err |-> "none",
          dates |-> [i \in 1..Len(date_arguments) |-> StrpDate(date_arguments[i])]]

(***************************************************************************)
(* create_gists                                                            *)
(***************************************************************************)
\* A raw record of the API is [id, public, files, created_at]: files is the
\* files mapping in its order, each entry [name, language] with language an
\* optional string.
Gist(id, visibility, language, created_date) ==
    [id |-> id, visibility |-> visibility, language |-> language,
     created_date |-> created_date]

\* A variant that reads the last file of the mapping instead of the first
FirstLanguageOfLastFile(raw_gist) ==
    LET languages == raw_gist.files[Len(raw_gist.files)].language
    IN  IF IsNone(languages) THEN "Unknown" ELSE languages.val

\* The language label of the first file of the mapping, "Unknown" when null
FirstLanguage(raw_gist) ==
    LET languages == raw_gist.files[1].language
    IN  IF IsNone(languages) THEN "Unknown" ELSE languages.val

\* A variant that names the non-public gists "private"
VisibilityPrivate(public) == IF public THEN "public" ELSE "private"

Visibility(public) == IF public THEN "public" ELSE "secret"

\* The Gist made of one raw record
CreateGist(raw_gist) ==
    Gist(raw_gist.id, Visibility(raw_gist.public), FirstLanguage(raw_gist),
         StrpTimestampDate(raw_gist.created_at))

\* Whether the loop body raises on a raw record: next(iter({})) on an empty
\* files mapping, strptime on a timestamp that is not in the format
RawRaises(raw_gist) ==
    Len(raw_gist.files) = 0 \/ StrpTimestampDate(raw_gist.created_at) = NoDate

\* [err, gists]: one Gist per raw record, in order, or the exception raised by
\* the first raw record the loop cannot convert
create_gists(json) ==
    IF \E k \in 1..Len(json) : RawRaises(json[k])
    THEN LET k == CHOOSE i \in 1..Len(json) :
                      RawRaises(json[i]) /\ \A j \in 1..(i - 1) : ~RawRaises(json[j])
         IN  [err |-> IF Len(json[k].files) = 0 THEN "StopIteration" ELSE "ValueError",
              gists |-> <<>>]
    ELSE [err |-> "none", gists |-> [k \in 1..Len(json) |-> CreateGist(json[k])]]

(***************************************************************************)
(* filter_gists                                                            *)
(***************************************************************************)
\* A variant whose interval excludes its upper end
DateMatchesOpenEnd(created_date, argument) ==
    IF Len(argument) = 1
    THEN created_date = argument[1]
    ELSE created_date >= argument[1] /\ created_date < argument[2]

\* The date test of the filter: one date is an equality, anything else is the
\* interval between the first two dates of the list
DateMatches(created_date, argument) ==
    IF Len(argument) = 1
    THEN created_date = argument[1]
    ELSE created_date >= argument[1] /\ created_date <= argument[2]

\* Whether the inner loop appends gist.id to matched_ids for the argument at
\* position index (0, 1, 2 as in the code)
Matches(index, argument, gist) ==
    IF IsNone(argument) THEN TRUE
    ELSE CASE index = 0 -> argument.val = gist.visibility
           [] index = 1 -> gist.language \in ToSet(argument.val)
           [] index = 2 -> DateMatches(gist.created_date, argument.val)

\* matched_ids of one round of the outer loop, as a list in the order of records
MatchedIds(index, argument, records) ==
    LET hit == SelectSeq(records, LAMBDA g : Matches(index, argument, g))
    IN  [k \in 1..Len(hit) |-> hit[k].id]

\* The date list of the third argument is indexed at [0] and [1] when its
\* length is not 1: a shorter list raises IndexError on the first gist
DateIndexError(criteria, records) ==
    /\ ~IsNone(criteria[3])
    /\ Len(criteria[3].val) = 0
    /\ Len(records) > 0

\* [err, ids]: set(gist_ids[0]).intersection(*gist_ids[1:]); the list the code
\* returns is some ordering of this set
filter_gists(criteria, records) ==
    IF DateIndexError(criteria, records)
    THEN [err |-> "IndexError", ids |-> {}]
    ELSE [err |-> "none",
          ids |-> ToSet(MatchedIds(0, criteria[1], records))
                    \cap ToSet(MatchedIds(1, criteria[2], records))
                    \cap ToSet(MatchedIds(2, criteria[3], records))]

(***************************************************************************)
(* The pure functions called on their own, as the unit tests call them     *)
(***************************************************************************)
\* Date strings: two in the format, one without zero padding (which strptime
\* accepts), one that is not a date
DS_0710 == <<"2", "0", "2", "4", "-", "0", "7", "-", "1", "0">>
DS_0712 == <<"2", "0", "2", "4", "-", "0", "7", "-", "1", "2">>
DS_Unpadded == <<"2", "0", "2", "4", "-", "6", "-", "9">>
DS_NoDay == <<"2", "0", "2", "4", "-", "0", "1">>
DateStrings == {DS_0710, DS_0712, DS_Unpadded, DS_NoDay}

\* Creation timestamps
TS_0616 == <<"2", "0", "2", "4", "-", "0", "6", "-", "1", "6", "T",
             "0", "0", ":", "0", "0", ":", "0", "0", "Z">>
TS_0710 == <<"2", "0", "2", "4", "-", "0", "7", "-", "1", "0", "T",
             "0", "9", ":", "3", "0", ":", "1", "5", "Z">>
TS_0712 == <<"2", "0", "2", "4", "-", "0", "7", "-", "1", "2", "T",
             "2", "3", ":", "5", "9", ":", "5", "9", "Z">>
Timestamps == {TS_0616, TS_0710, TS_0712}

File(name, language) == [name |-> name, language |-> language]

\* Files mappings: one file with a language, one file without, two files
\* whose first has a language and whose second has another, and two files
\* whose first has none
FilesChoices ==
    {<<File("a.py", Some("Python"))>>,
     <<File("notes", NoneStr)>>,
     <<File("core.clj", Some("Clojure")), File("b.py", Some("Python"))>>,
     <<File("LICENSE", NoneStr), File("b.py", Some("Python"))>>}

\* The raw part of a record but for its id
RawBodies == [public : BOOLEAN, files : FilesChoices, created_at : Timestamps]

Raw(id, body) ==
    [id |-> id, public |-> body.public, files |-> body.files,
     created_at |-> body.created_at]

\* A raw list with unique ids, in ascending or in descending order of id
RawList(bs, up) ==
    [k \in 1..Len(bs) |-> Raw(IF up THEN k ELSE Len(bs) + 1 - k, bs[k])]

\* Records with unique ids
Dates == {20240616, 20240710, 20240712}
GistBodies == [visibility : {"public", "secret"}, language : {"Python", "Unknown"},
               created_date : Dates]
GistList(bs) ==
    [k \in 1..Len(bs) |-> Gist(k, bs[k].visibility, bs[k].language, bs[k].created_date)]

\* Criteria: each of the three absent or present; date ranges of one date and
\* of two dates in either order
VisibilityArgs == {NoneStr, Some("public"), Some("secret")}
LanguageArgs == {NoneList, Some(<<"Python">>), Some(<<"Unknown", "Ruby">>)}
DateArgs == {NoneList} \cup {Some(<<d>>) : d \in Dates}
                \cup {Some(<<d, e>>) : d \in Dates, e \in Dates}

\* The visibility words of the unit tests
TestVisibilities == {"public", "secret", "private"}

\* The namespace argparse returns when no option is given
NoArgs ==
    [token |-> NoneStr, force |-> FALSE, visibility |-> NoneStr,
     languages |-> NoneList, date_range |-> NoneList]

NoCall ==
    [fn |-> "none", date_arguments |-> <<>>, json |-> <<>>,
     relevant_args |-> <<NoneStr, NoneList, NoneList>>, gists |-> <<>>]

Pending == [done |-> FALSE, err |-> "none", dates |-> <<>>, gists |-> <<>>, ids |-> {}]

ParseCall(a) == [NoCall EXCEPT !.fn = "parse_date_arguments", !.date_arguments = a]
CreateCall(j) == [NoCall EXCEPT !.fn = "create_gists", !.json = j]
FilterCall(c, g) == [NoCall EXCEPT !.fn = "filter_gists", !.relevant_args = c, !.gists = g]
CreateFilterCall(j, v) ==
    [NoCall EXCEPT !.fn = "create_then_filter", !.json = j,
                   !.relevant_args = <<Some(v), NoneList, NoneList>>]

\* The calls tried: date lists of up to MaxDateArgs strings, raw lists and
\* record lists of up to MaxGists entries, every criteria triple
PureCall ==
    \/ \E n \in 0..MaxDateArgs : \E a \in [1..n -> DateStrings] : call = ParseCall(a)
    \/ \E n \in 0..MaxGists : \E bs \in [1..n -> RawBodies] : \E up \in BOOLEAN :
          \/ call = CreateCall(RawList(bs, up))
          \/ \E v \in TestVisibilities : call = CreateFilterCall(RawList(bs, up), v)
    \/ \E n \in 0..MaxGists : \E bs \in [1..n -> GistBodies] :
          \E v \in VisibilityArgs, l \in LanguageArgs, d \in DateArgs :
              call = FilterCall(<<v, l, d>>, GistList(bs))

\* The run of cli before it has started, and all through the calls of the
\* pure functions on their own
CliIdle ==
    /\ pc = "idle" /\ err = "none"
    /\ argv = NoArgs /\ environ = NoneStr /\ token = NoneStr
    /\ relevant_args = <<NoneStr, NoneList, NoneList>>
    /\ page = 1 /\ gists = <<>> /\ gist_ids = <<>>
    /\ fetchLog = <<>> /\ filterCalled = FALSE
    /\ prompted = FALSE /\ answer = NoneStr
    /\ deleteLog = <<>> /\ deleteSleeps = 0 /\ outcome = "not called"
    /\ fullLen = ShortPage

InitPure ==
    /\ PureCall
    /\ ret = Pending
    /\ CliIdle

CallParse ==
    /\ call.fn = "parse_date_arguments" /\ ~ret.done
    /\ LET r == parse_date_arguments(call.date_arguments)
       IN  ret' = [Pending EXCEPT !.done = TRUE, !.err = r.err, !.dates = r.dates]
    /\ UNCHANGED <<call, cvars>>

CallCreate ==
    /\ call.fn = "create_gists" /\ ~ret.done
    /\ LET r == create_gists(call.json)
       IN  ret' = [Pending EXCEPT !.done = TRUE, !.err = r.err, !.gists = r.gists]
    /\ UNCHANGED <<call, cvars>>

CallFilter ==
    /\ call.fn = "filter_gists" /\ ~ret.done
    /\ LET r == filter_gists(call.relevant_args, call.gists)
       IN  ret' = [Pending EXCEPT !.done = TRUE, !.err = r.err, !.ids = r.ids]
    /\ UNCHANGED <<call, cvars>>

\* The created_gists fixture of the tests handed to filter_gists
CallCreateThenFilter ==
    /\ call.fn = "create_then_filter" /\ ~ret.done
    /\ LET c == create_gists(call.json)
           r == filter_gists(call.relevant_args, c.gists)
       IN  ret' = IF c.err # "none"
                  THEN [Pending EXCEPT !.done = TRUE, !.err = c.err]
                  ELSE [Pending EXCEPT !.done = TRUE, !.err = r.err,
                                       !.gists = c.gists, !.ids = r.ids]
    /\ UNCHANGED <<call, cvars>>

NextPure == CallParse \/ CallCreate \/ CallFilter \/ CallCreateThenFilter

SpecPure == InitPure /\ [][NextPure]_vars

(***************************************************************************)
(* Properties of the pure functions                                        *)
(***************************************************************************)
IdsOf(records) == {records[k].id : k \in 1..Len(records)}

\* A record satisfies a criteria triple when it satisfies each criterion that
\* is present
SatisfiesVisibility(g, v) == v.some => g.visibility = v.val
SatisfiesLanguages(g, l) == l.some => \E i \in 1..Len(l.val) : l.val[i] = g.language
SatisfiesDates(g, d) ==
    d.some => \/ Len(d.val) = 1 /\ g.created_date = d.val[1]
              \/ Len(d.val) = 2 /\ d.val[1] <= g.created_date
                                /\ g.created_date <= d.val[2]
Satisfies(g, c) ==
    SatisfiesVisibility(g, c[1]) /\ SatisfiesLanguages(g, c[2]) /\ SatisfiesDates(g, c[3])

FilterDone == call.fn = "filter_gists" /\ ret.done

\* C1: filter_gists returns exactly the ids of the records that satisfy every
\* criterion that is present (visibility equal, language in the list, date
\* equal to the single date or inside the inclusive interval of the two); an
\* absent criterion constrains nothing, and with all three absent the result
\* is every id.
C1_FilterReturnsExactlyTheMatches ==
    FilterDone =>
        /\ ret.err = "none"
        /\ ret.ids = {g.id : g \in {h \in ToSet(call.gists) : Satisfies(h, call.relevant_args)}}
        /\ (\A i \in 1..3 : IsNone(call.relevant_args[i])) => ret.ids = IdsOf(call.gists)

\* A filter call with visibility and a two-date range, where one record dated
\* on the upper end of the range matches and another record does not
C1_Witness ==
    /\ FilterDone
    /\ call.relevant_args[1].some
    /\ call.relevant_args[3].some /\ Len(call.relevant_args[3].val) = 2
    /\ call.relevant_args[3].val[1] < call.relevant_args[3].val[2]
    /\ \E k \in 1..Len(call.gists) :
          /\ call.gists[k].created_date = call.relevant_args[3].val[2]
          /\ call.gists[k].id \in ret.ids
    /\ ret.ids # IdsOf(call.gists)

ParseDone == call.fn = "parse_date_arguments" /\ ret.done

\* C3: parse_date_arguments fails with the too-many-arguments error for every
\* list of 3 or more date strings and never returns more than 2 dates.
C3_ThreeOrMoreAlwaysTooMany ==
    ParseDone =>
        /\ Len(call.date_arguments) >= 3 => ret.err = "TypeError"
        /\ Len(ret.dates) <= 2

CreateDone == call.fn = "create_gists" /\ ret.done

WellFormed(json) == \A k \in 1..Len(json) : Len(json[k].files) >= 1

\* The date part of a timestamp YYYY-MM-DDTHH:MM:SSZ: its first ten characters
DatePart(ts) ==
    (DigitVal(ts[1]) * 1000 + DigitVal(ts[2]) * 100 + DigitVal(ts[3]) * 10
        + DigitVal(ts[4])) * 10000
    + (DigitVal(ts[6]) * 10 + DigitVal(ts[7])) * 100
    + DigitVal(ts[9]) * 10 + DigitVal(ts[10])

CreateFilterDone == call.fn = "create_then_filter" /\ ret.done /\ ret.err = "none"

RawIds(json, public) == {json[k].id : k \in {i \in 1..Len(json) : json[i].public = public}}

FilesCycle ==
    <<<<File("a.py", Some("Python"))>>,
      <<File("notes", NoneStr)>>,
      <<File("core.clj", Some("Clojure")), File("b.py", Some("Python"))>>>>
TimestampCycle == <<TS_0616, TS_0710, TS_0712>>

RawGistAt(i) ==
    [id |-> i, public |-> (i % 2 = 0), files |-> FilesCycle[(i % 3) + 1],
     created_at |-> TimestampCycle[((i \div 6) % 3) + 1]]

\* The n records that follow the first `fetched` ones
RawPage(fetched, n) == [k \in 1..n |-> RawGistAt(fetched + k)]

\* Numbers of records a page may hold: a short page, or a full one
ShortLens == (0..MaxShort) \cup {ShortPage - 1}
FullLens == {ShortPage, ShortPage + MaxOver}

\* Fetch-loop events
GetEvent(p, tok, ok, n) ==
    [op |-> "get", page |-> p, per_page |-> PerPage, token |-> tok, ok |-> ok, n |-> n]
SleepEvent(p) ==
    [op |-> "sleep", page |-> p, per_page |-> 0, token |-> "", ok |-> TRUE, n |-> 0]

\* Command lines: the criteria options, with date lists that parse, that do
\* not, and that are too long
CliCriteria ==
    {<<NoneStr, NoneList, NoneList>>,
     <<Some("public"), NoneList, NoneList>>,
     <<NoneStr, Some(<<"Python">>), NoneList>>,
     <<NoneStr, NoneList, Some(<<DS_0710>>)>>,
     <<Some("secret"), Some(<<"Unknown", "Clojure">>), Some(<<DS_Unpadded, DS_0710>>)>>,
     <<NoneStr, NoneList, Some(<<DS_NoDay>>)>>,
     <<NoneStr, NoneList, Some(<<DS_0710, DS_0712, DS_0712>>)>>,
     <<NoneStr, NoneList, Some(<<DS_0710, DS_0712, DS_0712, DS_Unpadded>>)>>}

\* The criteria tried with every way of giving the token
PlainCriteria ==
    {<<NoneStr, NoneList, NoneList>>,
     <<NoneStr, NoneList, Some(<<DS_NoDay>>)>>}

TokenArgs == {NoneStr, Some(""), Some("arg-token")}
EnvTokens == {NoneStr, Some("env-token")}

Args(t, f, c) ==
    [token |-> t, force |-> f, visibility |-> c[1], languages |-> c[2],
     date_range |-> c[3]]

\* Invocations <<args, GITHUB_API_TOKEN>>: every way of giving the token with
\* the plain criteria, every criteria with the token in the environment
Invocations ==
    {<<Args(t, f, c), e>> :
        t \in TokenArgs, f \in BOOLEAN, c \in PlainCriteria, e \in EnvTokens}
    \cup {<<Args(NoneStr, f, c), Some("env-token")>> : f \in BOOLEAN, c \in CliCriteria}

\* What the user may type at the prompt
Answers == {"Yes", "Y", "y", "yes", "n", ""}

\* Which delete calls the API refuses
DeletePatterns == {"all ok", "first fails", "last fails"}
DeleteOk(pattern, k, n) ==
    CASE pattern = "all ok" -> TRUE
      [] pattern = "first fails" -> k # 1
      [] pattern = "last fails" -> k # n

InitCli ==
    /\ call = NoCall /\ ret = Pending
    /\ pc = "start" /\ err = "none"
    /\ \E inv \in Invocations : argv = inv[1] /\ environ = inv[2]
    /\ fullLen \in FullLens
    /\ token = argv.token
    /\ relevant_args = <<NoneStr, NoneList, NoneList>>
    /\ page = 1 /\ gists = <<>> /\ gist_ids = <<>>
    /\ fetchLog = <<>> /\ filterCalled = FALSE
    /\ prompted = FALSE /\ answer = NoneStr
    /\ deleteLog = <<>> /\ deleteSleeps = 0 /\ outcome = "not called"

\* A variant that takes any token argument, even none, for a token
NoTokenNever(t) == FALSE

\* `not args.token`
NoToken(t) == IsNone(t) \/ t.val = ""

\* Check for access token (lines 72-79)
CheckToken ==
    /\ pc = "start"
    /\ IF NoToken(argv.token) /\ IsNone(environ)
       THEN /\ pc' = "error" /\ err' = "ValueError: no token"
            /\ UNCHANGED token
       ELSE /\ token' = IF NoToken(argv.token) THEN environ ELSE argv.token
            /\ pc' = "dates"
            /\ UNCHANGED err
    /\ UNCHANGED <<pvars, argv, environ, relevant_args, page, gists, gist_ids,
                   fetchLog, filterCalled, prompted, answer, deleteLog,
                   deleteSleeps, outcome, fullLen>>

\* relevant_args and the processing of the date arguments (lines 81-86)
ProcessDates ==
    /\ pc = "dates"
    /\ IF IsNone(argv.date_range)
       THEN /\ relevant_args' = <<argv.visibility, argv.languages, NoneList>>
            /\ pc' = "fetch"
            /\ UNCHANGED err
       ELSE LET r == parse_date_arguments(argv.date_range.val)
            IN  IF r.err # "none"
                THEN /\ pc' = "error"
                     /\ err' = IF r.err = "TypeError" THEN "TypeError: dates"
                               ELSE "ValueError: dates"
                     /\ UNCHANGED relevant_args
                ELSE /\ relevant_args' = <<argv.visibility, argv.languages, Some(r.dates)>>
                     /\ pc' = "fetch"
                     /\ UNCHANGED err
    /\ UNCHANGED <<pvars, argv, environ, token, page, gists, gist_ids,
                   fetchLog, filterCalled, prompted, answer, deleteLog,
                   deleteSleeps, outcome, fullLen>>

\* A variant that lets a failed response through
FetchNeverRaises(ok) == FALSE

\* response.raise_for_status() of the fetch loop
FetchRaises(ok) == ~ok

\* A variant that takes a page of exactly the threshold for the last one
IsShortPageInclusive(n) == n <= ShortPage

\* len(page_gists) < 30: no gists on further pages
IsShortPage(n) == n < ShortPage

\* One iteration of the fetch loop (lines 90-105): the request of page
\* `page`, answered with failure or with n records
FetchPage ==
    /\ pc = "fetch"
    /\ \E ok \in BOOLEAN, n \in ShortLens \cup {fullLen} :
          IF FetchRaises(ok)
          THEN /\ ~ok /\ n = 0
               /\ fetchLog' = Append(fetchLog, GetEvent(page, token.val, FALSE, 0))
               /\ pc' = "error" /\ err' = "HTTPError: get"
               /\ UNCHANGED <<page, gists>>
          ELSE LET page_gists == create_gists(RawPage(Len(gists), n)).gists
                   got == Append(fetchLog, GetEvent(page, token.val, ok, n))
               IN  /\ gists' = gists \o page_gists
                   /\ IF IsShortPage(Len(page_gists))
                      THEN /\ fetchLog' = got
                           /\ pc' = "filter"
                           /\ UNCHANGED page
                      ELSE /\ fetchLog' = Append(got, SleepEvent(page))
                           /\ IF page = LastPage
                              THEN pc' = "filter" /\ UNCHANGED page
                              ELSE pc' = "fetch" /\ page' = page + 1
                   /\ UNCHANGED err
    /\ UNCHANGED <<pvars, argv, environ, token, relevant_args, gist_ids,
                   filterCalled, prompted, answer, deleteLog, deleteSleeps, outcome, fullLen>>

\* list(a set of ids): the ids in the order of the records, or in the reverse
\* order
ListOfSet(ids, records, up) ==
    LET asc == SelectSeq([k \in 1..Len(records) |-> records[k].id],
                         LAMBDA i : i \in ids)
    IN  IF up THEN asc ELSE [k \in 1..Len(asc) |-> asc[Len(asc) + 1 - k]]

\* all(value is None for value in relevant_args)
AllNone(criteria) == \A i \in 1..3 : IsNone(criteria[i])

\* The choice of the ids to delete (lines 108-113, up to the call of
\* delete_gists)
SelectGists ==
    /\ pc = "filter"
    /\ IF AllNone(relevant_args)
       THEN /\ gist_ids' = [k \in 1..Len(gists) |-> gists[k].id]
            /\ UNCHANGED filterCalled
       ELSE /\ filterCalled' = TRUE
            /\ \E up \in BOOLEAN :
                  gist_ids' = ListOfSet(filter_gists(relevant_args, gists).ids, gists, up)
    /\ pc' = "delete"
    /\ UNCHANGED <<pvars, err, argv, environ, token, relevant_args, page, gists,
                   fetchLog, prompted, answer, deleteLog, deleteSleeps, outcome, fullLen>>

\* A variant that also takes the lower-case word for a yes
ConfirmsLoosely(ans) == ans \in {"Yes", "Y", "y", "yes"}

\* answer in ("Yes", "Y", "y")
Confirms(ans) == ans \in {"Yes", "Y", "y"}

\* The delete calls of the loop of delete_gists (lines 209-218): one for each
\* id, in order, whatever the responses
DeleteCalls(ids, pattern) ==
    [k \in 1..Len(ids) |-> [id |-> ids[k], ok |-> DeleteOk(pattern, k, Len(ids))]]

\* delete_gists(args, gist_ids) (lines 192-221)
DeleteGists ==
    /\ pc = "delete"
    /\ IF Len(gist_ids) = 0
       THEN /\ outcome' = "No gists are eligible for deletion."
            /\ pc' = "done"
            /\ UNCHANGED <<err, prompted, answer, deleteLog, deleteSleeps>>
       ELSE \E ans \in Answers, pattern \in DeletePatterns :
               /\ prompted' = ~argv.force
               /\ answer' = IF argv.force THEN NoneStr ELSE Some(ans)
               /\ IF ~argv.force /\ ~Confirms(ans)
                  THEN /\ outcome' = "declined"
                       /\ pc' = "done"
                       /\ UNCHANGED <<err, deleteLog, deleteSleeps>>
                  ELSE LET calls == DeleteCalls(gist_ids, pattern)
                       IN  /\ deleteLog' = calls
                           /\ deleteSleeps' = Len(calls)
                           \* raise_for_status() of the response left by the loop
                           /\ IF calls[Len(calls)].ok
                              THEN /\ outcome' = "Gists have been deleted!"
                                   /\ pc' = "done"
                                   /\ UNCHANGED err
                              ELSE /\ outcome' = "raised"
                                   /\ pc' = "error"
                                   /\ err' = "HTTPError: delete"
    /\ UNCHANGED <<pvars, argv, environ, token, relevant_args, page, gists,
                   gist_ids, fetchLog, filterCalled, fullLen>>

Next == CheckToken \/ ProcessDates \/ FetchPage \/ SelectGists \/ DeleteGists

Init == InitCli

Spec == Init /\ [][Next]_vars

(***************************************************************************)
(* Properties of a run of cli                                              *)
(***************************************************************************)
\* The page requests and the waits of the fetch loop, in order
Gets == SelectSeq(fetchLog, LAMBDA e : e.op = "get")
Waits == SelectSeq(fetchLog, LAMBDA e : e.op = "sleep")

Ended == pc \in {"done", "error"}
DeleteGistsCalled == outcome # "not called"

\* C2 as stated: after a delete call that failed no delete call is issued
\* for a later id, and the run ends in an error instead of reporting success.
C2_FailedDeleteAborts ==
    \A k \in 1..Len(deleteLog) :
        ~deleteLog[k].ok => (k = Len(deleteLog) /\ pc = "error")

\* C4: the fetch loop requests pages 1, 2, 3, ... with page size 100; after a
\* successful page of 30 or more records it requests the next page, after a
\* page of 29 or fewer it requests no further page, and it never requests a
\* page numbered 31 or higher.
C4_FetchLoopPaging ==
    LET G == Gets
        last == G[Len(G)]
    IN  /\ \A i \in 1..Len(G) : G[i].page = i /\ G[i].per_page = 100
        /\ Len(G) <= 30
        /\ \A i \in 1..(Len(G) - 1) : G[i].ok /\ G[i].n >= 30
        /\ pc = "fetch" => page = Len(G) + 1 /\ page <= 30
        /\ (Len(G) >= 1 /\ Len(G) < 30 /\ last.ok /\ last.n >= 30) => pc = "fetch"
        /\ (Len(G) >= 1 /\ last.ok /\ last.n <= 29) => pc # "fetch"
        /\ Len(G) = 30 => pc # "fetch"

\* The page cap is reached: thirty pages of 30 or more records were requested,
\* and the run has moved on
C4_Witness ==
    /\ Len(Gets) = 30
    /\ Gets[30].ok /\ Gets[30].n >= 30 /\ Gets[29].n >= 30
    /\ pc = "delete"

\* C5 as stated: a wait occurs between every two successive page requests and
\* nowhere else, none before the first request and none after the last one,
\* so there is one wait less than there are page requests.
C5_WaitsOnlyBetweenRequests ==
    Len(fetchLog) >= 1 =>
        /\ fetchLog[1].op = "get"
        /\ \A i \in 1..(Len(fetchLog) - 1) : fetchLog[i].op # fetchLog[i + 1].op
        /\ pc # "fetch" => /\ fetchLog[Len(fetchLog)].op = "get"
                           /\ Len(Waits) = Len(Gets) - 1

\* C6: delete_gists issues no delete call and no pacing delay when the id
\* collection is empty (and then does not prompt either), and when force is
\* unset and the answer is anything but "Yes", "Y" or "y"; in both cases it
\* returns without an error.
C6_NothingDeletedWithoutIdsOrConsent ==
    DeleteGistsCalled =>
        /\ Len(gist_ids) = 0 =>
              /\ deleteLog = <<>> /\ deleteSleeps = 0 /\ ~prompted
              /\ pc = "done" /\ err = "none"
        /\ (Len(gist_ids) > 0 /\ ~argv.force /\ answer.val \notin {"Yes", "Y", "y"}) =>
              /\ deleteLog = <<>> /\ deleteSleeps = 0
              /\ pc = "done" /\ err = "none"

\* The user answered "yes" to the prompt for a non-empty collection
C6_Witness ==
    /\ DeleteGistsCalled /\ Len(gist_ids) > 0
    /\ prompted /\ answer = Some("yes")
    /\ deleteLog = <<>>

\* C7: a non-success response to a page request ends the run at once with a
\* fatal error: no further page is requested, the page is not requested
\* again, the filter is not evaluated, no prompt is shown and no delete call
\* is issued.
C7_FailedFetchIsFatal ==
    \A i \in 1..Len(Gets) :
        ~Gets[i].ok =>
            /\ i = Len(Gets)
            /\ \A j \in 1..(i - 1) : Gets[j].page # Gets[i].page
            /\ fetchLog[Len(fetchLog)] = Gets[i]
            /\ pc = "error" /\ err = "HTTPError: get"
            /\ ~filterCalled /\ gist_ids = <<>>
            /\ ~prompted /\ ~DeleteGistsCalled
            /\ deleteLog = <<>> /\ deleteSleeps = 0

\* The request of the third page failed
C7_Witness ==
    /\ Len(Gets) = 3 /\ ~Gets[3].ok
    /\ pc = "error"

NoCredential == (IsNone(argv.token) \/ argv.token.val = "") /\ IsNone(environ)
OnlyEnvToken == IsNone(argv.token) /\ environ.some
NoNetworkCall == fetchLog = <<>> /\ deleteLog = <<>>

\* C8 as stated: without a token argument and without the environment
\* variable the run fails before any network call; with the environment
\* variable alone the run proceeds to the fetch.
C8_EnvTokenAlwaysFetches ==
    /\ NoCredential =>
          /\ NoNetworkCall
          /\ Ended => err = "ValueError: no token"
    /\ (OnlyEnvToken /\ Ended) => Len(Gets) >= 1

\* C8 amended: without a token argument and without the environment variable
\* the run fails with the missing-token error before any network call; with
\* the environment variable alone the run does not fail so, every request
\* carries the environment's value, and the run proceeds to the fetch unless
\* the processing of the date arguments raises first.
C8_TokenFromEnvironment ==
    /\ NoCredential =>
          /\ NoNetworkCall
          /\ pc \in {"start", "error"}
          /\ Ended => err = "ValueError: no token"
    /\ (OnlyEnvToken /\ pc # "start") =>
          /\ token = environ
          /\ err # "ValueError: no token"
          /\ \A i \in 1..Len(Gets) : Gets[i].token = environ.val
          /\ (Ended /\ err \notin {"TypeError: dates", "ValueError: dates"}) =>
                Len(Gets) >= 1

\* A run with the token in the environment alone that fetched and deleted
C8_Witness ==
    /\ OnlyEnvToken
    /\ pc = "done" /\ deleteLog # <<>>
    /\ Gets[1].token = "env-token"

\* The criteria as the user gave them on the command line, the date strings
\* read as dates
SuppliedCriteria ==
    <<argv.visibility, argv.languages,
      IF IsNone(argv.date_range) THEN NoneList
      ELSE Some([i \in 1..Len(argv.date_range.val) |-> StrpDate(argv.date_range.val[i])])>>

\* The ids of the fetched records that satisfy every supplied criterion
FetchedMatchingIds ==
    {g.id : g \in {h \in ToSet(gists) : Satisfies(h, SuppliedCriteria)}}

\* The number of records the page requests returned
RecordsReturned(G) == IF Len(G) = 0 THEN 0 ELSE (Len(G) - 1) * fullLen + G[Len(G)].n

\* C11: every delete call targets the id of a record that a page request of
\* the run returned and that satisfies every criterion the user supplied
\* (any fetched record when none was supplied), and no delete call is issued
\* before the last page request has completed.
C11_DeletesOnlyFetchedMatches ==
    deleteLog # <<>> =>
        /\ pc \in {"done", "error"}
        /\ \A i \in 1..Len(Gets) : Gets[i].ok
        /\ Len(gists) = RecordsReturned(Gets)
        /\ LET matching == FetchedMatchingIds
           IN  \A k \in 1..Len(deleteLog) : deleteLog[k].id \in matching

====
